---- MODULE Spec2Model ----
(***************************************************************************)
(* GO Transit proxy worker (cloudflare-worker/src/index.js).               *)
(*                                                                         *)
(* Specifications:                                                     *)
(*   Spec     the request pipeline of worker.fetch: concurrent invocations *)
(*            sharing the edge cache (caches.default), the origin, and the *)
(*            cache writes registered with ctx.waitUntil;                  *)
(*   SpecKey  the pure cache-key functions (normalizeParams,               *)
(*            createCacheKey) applied to bounded query-parameter lists;    *)
(*   SpecFault  Spec, with platform calls that may throw or reject;        *)
(*   SpecOrigin the upstream URL fetchOrigin builds, with the cache key,   *)
(*            for bounded query-parameter lists;                           *)
(*   SpecLive Spec for a deployed worker, with the runtime's fairness;     *)
(*   SpecLog  logEvent for every event type and LOG_LEVEL;                 *)
(*   SpecTtl  getCacheHeaders and the timeout of fetchOrigin for bounded   *)
(*            numeric bindings.                                            *)
(***************************************************************************)
EXTENDS Integers, Sequences, FiniteSets, TLC

\* ------------------------------------------------------------------ bounds
NumProcs == 2        \* concurrent invocations of worker.fetch
MaxRequests == 2     \* requests handled in one behaviour
MaxParams == 3       \* query parameters of a URL (SpecKey)
MaxTtl == 2          \* largest configured TTL or timeout value (SpecTtl)

VARIABLES
    env,          \* the worker's bindings (read-only after Init)
    matchExpired, \* platform: does cache.match return an entry past its freshness?
    cache,        \* caches.default: cache key -> stored entry
    inv,          \* per invocation: position in worker.fetch and what it did
    pending,      \* per invocation: the cache.put handed to ctx.waitUntil, not yet landed
    nreq,         \* requests started so far
    kpath, kbase, kq1, kq2, key1, key2, kdone,  \* SpecKey: inputs and computed keys
    originUrl1, originUrl2,                     \* SpecOrigin: the upstream URLs
    logType, logOut,                            \* SpecLog: the event and what is written
    cacheControl, timeoutMs                     \* SpecTtl: the computed header and timeout

vars == <<env, matchExpired, cache, inv, pending, nreq,
          kpath, kbase, kq1, kq2, key1, key2, kdone, originUrl1, originUrl2,
          logType, logOut, cacheControl, timeoutMs>>
pipeVars == <<env, matchExpired, cache, inv, pending, nreq>>
fnVars == <<logType, logOut, cacheControl, timeoutMs>>
keyVars == <<kpath, kbase, kq1, kq2, key1, key2, kdone, originUrl1, originUrl2, fnVars>>

Procs == 1..NumProcs

\* ------------------------------------------------------------ strings
\* A query value is a sequence of characters; keys are strings whose
\* characters are given by Chars.
Chars(s) ==
    CASE s = "station_id" -> <<"s","t","a","t","i","o","n","_","i","d">>
      [] s = "limit" -> <<"l","i","m","i","t">>
      [] s = "direction" -> <<"d","i","r","e","c","t","i","o","n">>
      [] s = "utm_source" -> <<"u","t","m","_","s","o","u","r","c","e">>
      [] s = "key" -> <<"k","e","y">>

\* Collation order of the characters that occur in parameter names.
Alphabet == <<"_","a","c","d","e","i","k","l","m","n","o","r","s","t","u","y">>

CharOrd(c) == CHOOSE i \in 1..Len(Alphabet) : Alphabet[i] = c

RECURSIVE CompareChars(_, _)
CompareChars(a, b) ==
    IF a = <<>> /\ b = <<>> THEN 0
    ELSE IF a = <<>> THEN -1
    ELSE IF b = <<>> THEN 1
    ELSE IF CharOrd(Head(a)) < CharOrd(Head(b)) THEN -1
    ELSE IF CharOrd(Head(a)) > CharOrd(Head(b)) THEN 1
    ELSE CompareChars(Tail(a), Tail(b))

\* String.prototype.localeCompare on parameter names.
localeCompare(a, b) == CompareChars(Chars(a), Chars(b))

\* encodeURIComponent, one character: unreserved characters are kept, every
\* other character becomes its percent-escape.
EncodeChar(c) ==
    CASE c = "&" -> "%26"
      [] c = "=" -> "%3D"
      [] c = " " -> "%20"
      [] c = "%" -> "%25"
      [] c = "?" -> "%3F"
      [] c = "/" -> "%2F"
      [] OTHER -> c

RECURSIVE encodeURIComponent(_)
encodeURIComponent(cs) ==
    IF cs = <<>> THEN "" ELSE EncodeChar(Head(cs)) \o encodeURIComponent(Tail(cs))

\* ------------------------------------------------------ cache key
\* One query parameter: its name and its value.
Param(k, v) == [k |-> k, v |-> v]

allowlist == {"station_id", "limit", "direction"}

\* Array.prototype.sort with the comparator of normalizeParams: a stable
\* sort that compares the parameter names only.
RECURSIVE InsertByKey(_, _)
InsertByKey(e, s) ==
    IF s = <<>> THEN <<e>>
    ELSE IF localeCompare(e.k, Head(s).k) < 0 THEN <<e>> \o s
    ELSE <<Head(s)>> \o InsertByKey(e, Tail(s))

RECURSIVE SortByKey(_)
SortByKey(s) ==
    IF s = <<>> THEN <<>>
    ELSE InsertByKey(s[Len(s)], SortByKey(SubSeq(s, 1, Len(s) - 1)))

RECURSIVE JoinAmp(_)
JoinAmp(s) ==
    IF s = <<>> THEN ""
    ELSE IF Len(s) = 1 THEN s[1]
    ELSE s[1] \o "&" \o JoinAmp(Tail(s))

EncodePair(e) == encodeURIComponent(Chars(e.k)) \o "=" \o encodeURIComponent(e.v)

FilterAllowed(params) == SelectSeq(params, LAMBDA e : e.k \in allowlist)

\* Variant: the allow-listed parameters keep the order of the request.
normalizeParams_Unsorted(params) ==
    LET kept == FilterAllowed(params)
    IN  JoinAmp([i \in 1..Len(kept) |-> EncodePair(kept[i])])

normalizeParams(params) ==
    LET kept == SortByKey(FilterAllowed(params))
    IN  JoinAmp([i \in 1..Len(kept) |-> EncodePair(kept[i])])

\* The URL string createCacheKey builds (the key is a GET Request for it).
cacheKeyUrl(originBaseUrl, pathname, params) ==
    LET normalizedParams == normalizeParams(params)
    IN  originBaseUrl \o pathname \o
        (IF normalizedParams # "" THEN "?" \o normalizedParams ELSE "")


\* createCacheKey: throws when the base is missing or the URL does not parse.
\* AbsoluteUrls are the base URLs that `new URL` accepts.
AbsoluteUrls == {"https://o", "https://o2", "https://o/"}

createCacheKey(originBaseUrl, pathname, params) ==
    IF originBaseUrl = "" THEN [threw |-> TRUE, url |-> ""]
    ELSE IF originBaseUrl \notin AbsoluteUrls THEN [threw |-> TRUE, url |-> ""]
    ELSE [threw |-> FALSE, url |-> cacheKeyUrl(originBaseUrl, pathname, params)]

\* ------------------------------------------------------ upstream URL
\* The upstream URL of fetchOrigin: base and path as one string, and the
\* decoded query pairs of its searchParams, in order.
NoUrl == [path |-> "", params |-> <<>>]

\* baseUrl: ORIGIN_BASE_URL without a trailing slash.
StripTrailingSlash(s) == IF s = "https://o/" THEN "https://o" ELSE s

\* pathName: url.pathname without its leading slash.
StripLeadingSlash(s) ==
    CASE s = "/api" -> "api"
      [] s = "/health" -> "health"
      [] OTHER -> s

\* Variant: the key is added with searchParams.append.
searchParamsSet_Append(params, name, value) == Append(params, Param(name, value))

\* URLSearchParams.set: the first pair of that name takes the value and the
\* later pairs of that name are removed; without such a pair, one is appended.
searchParamsSet(params, name, value) ==
    IF \A i \in DOMAIN params : params[i].k # name
    THEN Append(params, Param(name, value))
    ELSE LET i == CHOOSE j \in DOMAIN params :
                      /\ params[j].k = name
                      /\ \A h \in 1..(j - 1) : params[h].k # name
         IN  SubSeq(params, 1, i - 1) \o <<Param(name, value)>>
             \o SelectSeq(SubSeq(params, i + 1, Len(params)),
                          LAMBDA e : e.k # name)

\* fetchOrigin up to the fetch call: throws without configuration, else the
\* URL it requests (the client's whole query, then the key).
originUrlObj(e, pathname, query) ==
    IF e.ORIGIN_BASE_URL = "" \/ e.ORIGIN_AUTH_TOKEN = ""
    THEN [threw |-> TRUE, url |-> NoUrl]
    ELSE [threw |-> FALSE,
          url |-> [path |-> StripTrailingSlash(e.ORIGIN_BASE_URL) \o "/"
                            \o StripLeadingSlash(pathname),
                   params |-> searchParamsSet(query, "key", <<e.ORIGIN_AUTH_TOKEN>>)]]

\* ------------------------------------------------------ responses
\* A Response: status, body and the headers the worker reads or sets.
\*   cc       Cache-Control ("" when absent)
\*   xcache   X-Cache ("" when absent)
\*   version  X-Proxy-Version is present
\*   timems   X-Proxy-Time-Ms is present
\*   cors     the four Access-Control-* headers are set
Response(status, body) ==
    [status |-> status, body |-> body, cc |-> "", xcache |-> "",
     version |-> FALSE, timems |-> FALSE, cors |-> FALSE]

\* `undefined` / `null` where a Response is expected.
NoResponse == Response(0, "")

Ok(r) == r.status >= 200 /\ r.status <= 299

addCorsHeaders(response) == [response EXCEPT !.cors = TRUE]

createErrorResponse(status, statusText, e) ==
    LET response == addCorsHeaders(Response(status, statusText))
    IN  IF e.ENABLE_OBSERVABILITY_HEADERS # "false"
        THEN [response EXCEPT !.xcache = "ERROR", !.version = TRUE]
        ELSE response

\* Variant: the health body shows the binding itself.
Mask_Leaks(v) == IF v # "" THEN v ELSE "missing"

Mask(v) == IF v # "" THEN "***" ELSE "missing"

\* Variant: the health response returned without addCorsHeaders.
healthResponse_NoCors(e) ==
    Response(200, "ok " \o Mask(e.ORIGIN_BASE_URL) \o " " \o Mask(e.ORIGIN_AUTH_TOKEN))

healthResponse(e) ==
    addCorsHeaders(Response(200,
        "ok " \o Mask(e.ORIGIN_BASE_URL) \o " " \o Mask(e.ORIGIN_AUTH_TOKEN)))

validateRequest(method) ==
    IF method = "OPTIONS" THEN addCorsHeaders(Response(204, ""))
    ELSE IF method # "GET" THEN addCorsHeaders(Response(405, ""))
    ELSE NoResponse

\* parseInt(v) || dflt, for a binding v = [set, n]: an unset binding parses
\* to NaN, and NaN and 0 are both falsy.
ParseIntOr(v, dflt) == IF v.set /\ v.n # 0 THEN v.n ELSE dflt

\* Variant: the short TTL of error responses is missing; a 5xx gets the
\* Cache-Control of a success.
getCacheHeaders_NoShortTtl(status, browserTtl, edgeTtl, swrTtl) ==
    IF status >= 400 /\ status < 500 THEN "no-store"
    ELSE "public, max-age=" \o ToString(ParseIntOr(browserTtl, 60))
         \o ", s-maxage=" \o ToString(ParseIntOr(edgeTtl, 300))
         \o ", stale-while-revalidate=" \o ToString(ParseIntOr(swrTtl, 30))

getCacheHeaders(status, browserTtl, edgeTtl, swrTtl) ==
    IF status >= 500 THEN "public, max-age=10, s-maxage=10"
    ELSE IF status >= 400 THEN "no-store"
    ELSE "public, max-age=" \o ToString(ParseIntOr(browserTtl, 60))
         \o ", s-maxage=" \o ToString(ParseIntOr(edgeTtl, 300))
         \o ", stale-while-revalidate=" \o ToString(ParseIntOr(swrTtl, 30))

\* Steps 6-9 of worker.fetch: the response built from the origin's response.
finalResponse(originResponse, e) ==
    LET cacheHeaders == getCacheHeaders(originResponse.status, e.BROWSER_TTL,
                                        e.EDGE_TTL, e.STALE_WHILE_REVALIDATE_TTL)
        withCc == [originResponse EXCEPT !.cc = cacheHeaders]
        withObs == IF e.ENABLE_OBSERVABILITY_HEADERS # "false"
                   THEN [withCc EXCEPT !.xcache = "MISS", !.version = TRUE,
                                       !.timems = TRUE]
                   ELSE withCc
    IN  [withObs EXCEPT !.cors = TRUE]

\* Variant: only successful responses are stored.
shouldStore_OnlyOk(final) == Ok(final)

\* Variant: every response that is not a redirect is stored, 4xx included.
shouldStore_ClientErrorsToo(final) == Ok(final) \/ final.status >= 400

\* Step 10: is the final response handed to cache.put?
\* Variant: every response below 400 is stored, besides the 5xx.
shouldStore_AllBelow400(final) == final.status < 400 \/ final.status >= 500

shouldStore(final) == Ok(final) \/ final.status >= 500

\* Variant: the HIT response keeps the X-Cache header it was stored with.
hitResponse_KeepsXCache(cached) == addCorsHeaders(cached)

\* Cache HIT: the stored response with X-Cache: HIT and the CORS headers.
hitResponse(cached) == addCorsHeaders([cached EXCEPT !.xcache = "HIT"])

\* Stale fallback: the stored response with X-Cache: STALE and the CORS headers.
staleResponse(cached) == addCorsHeaders([cached EXCEPT !.xcache = "STALE"])

badGatewayResponse(message) == addCorsHeaders(Response(502, "Bad Gateway: " \o message))

\* ------------------------------------------------------ logging
\* eventType.includes(sub), for the event names the worker logs.
Includes(eventType, sub) ==
    CASE sub = "ERROR" -> eventType \in {"ORIGIN_ERROR", "ORIGIN_FETCH_ERROR",
                                         "WORKER_ERROR", "CACHE_ERROR_RESPONSE"}
      [] sub = "TIMEOUT" -> eventType = "ORIGIN_TIMEOUT"
      [] sub = "STALE_FALLBACK" -> eventType = "STALE_FALLBACK"

eventLevel(eventType) ==
    IF Includes(eventType, "ERROR") THEN 3
    ELSE IF Includes(eventType, "TIMEOUT") \/ Includes(eventType, "STALE_FALLBACK") THEN 2
    ELSE 1

\* levelName: the level written in the log line.
levelName(eventType) ==
    IF Includes(eventType, "ERROR") THEN "ERROR"
    ELSE IF Includes(eventType, "TIMEOUT") \/ Includes(eventType, "STALE_FALLBACK") THEN "WARN"
    ELSE "INFO"

\* levels[logLevel] || 1, with logLevel = env.LOG_LEVEL || 'info'
currentLevel(e) ==
    CASE e.LOG_LEVEL = "error" -> 3
      [] e.LOG_LEVEL = "warn" -> 2
      [] OTHER -> 1

\* logEvent: the invocation's log after the call.
logEvent(e, log, eventType) ==
    IF eventLevel(eventType) < currentLevel(e) THEN log ELSE Append(log, eventType)


\* ------------------------------------------------------ the pipeline's world
Paths == {"/health", "/api"}


Query0 == <<>>                                   \* no query string
Query1 == <<Param("limit", <<"1">>)>>            \* ?limit=1
Query2 == <<Param("utm_source", <<"x">>), Param("limit", <<"1">>)>>  \* ?utm_source=x&limit=1
Queries == {Query0, Query1, Query2}

Request(method, pathname, query) ==
    [method |-> method, pathname |-> pathname, query |-> query]

\* The inbound requests.
Requests ==
    { Request("GET", "/health", Query0), Request("OPTIONS", "/health", Query0),
      Request("POST", "/health", Query0),
      Request("OPTIONS", "/api", Query1), Request("POST", "/api", Query0),
      Request("GET", "/api", Query0), Request("GET", "/api", Query1),
      Request("GET", "/api", Query2) }

CacheKeys == { cacheKeyUrl(b, p, q) : b \in AbsoluteUrls, p \in Paths, q \in Queries }

Unset == [set |-> FALSE, n |-> 0]

\* The bindings a deployment can have ("" is an unset binding).
Envs ==
    [ ORIGIN_BASE_URL : {"", "https://o", "not-a-url"},
      ORIGIN_AUTH_TOKEN : {"", "secret"},
      ENABLE_OBSERVABILITY_HEADERS : {"", "false"},
      LOG_LEVEL : {""},
      BROWSER_TTL : {Unset},
      EDGE_TTL : {Unset},
      STALE_WHILE_REVALIDATE_TTL : {Unset},
      ORIGIN_TIMEOUT_MS : {Unset} ]

\* What the origin can do with one request: answer, exceed the timeout
\* (fetchOrigin throws AbortError), or fail at the network level (fetch, or
\* the URL construction, throws a TypeError).
OriginOutcomes ==
    { [kind |-> "response", response |-> Response(200, "b1"), quotesUrl |-> FALSE],
      [kind |-> "response", response |-> Response(200, "b2"), quotesUrl |-> FALSE],
      [kind |-> "response", response |-> Response(304, ""), quotesUrl |-> FALSE],
      [kind |-> "response", response |-> Response(400, "b3"), quotesUrl |-> FALSE],
      [kind |-> "response", response |-> Response(500, "b4"), quotesUrl |-> FALSE],
      [kind |-> "AbortError", response |-> NoResponse, quotesUrl |-> FALSE],
      [kind |-> "TypeError", response |-> NoResponse, quotesUrl |-> FALSE],
      [kind |-> "TypeError", response |-> NoResponse, quotesUrl |-> TRUE] }

NoOutcome == [kind |-> "", response |-> NoResponse, quotesUrl |-> FALSE]

\* The upstream URL as a string (URL.prototype.toString).
urlToString(u) ==
    u.path \o "?" \o JoinAmp([i \in 1..Len(u.params) |-> EncodePair(u.params[i])])

\* err.message of a failed origin fetch. The text is the runtime's: a fixed
\* text, or one that quotes the URL that was requested.
errMessage(outcome, e, pathname, query) ==
    IF outcome.quotesUrl
    THEN "Fetch API cannot load: " \o urlToString(originUrlObj(e, pathname, query).url)
    ELSE "fetch failed"

\* A stored entry: the response given to cache.put, and whether it is still
\* within the freshness its Cache-Control grants.
NoEntry == [resp |-> NoResponse, fresh |-> FALSE]

\* cache.match(cacheKey): the stored response, or NoResponse (undefined).
match(c, key) ==
    IF c[key] # NoEntry /\ (c[key].fresh \/ matchExpired) THEN c[key].resp
    ELSE NoResponse

\* An invocation of worker.fetch.
\*   pc       "idle", "lookup" (awaiting the first cache.match), "origin"
\*            (awaiting fetchOrigin), "stale_timeout" / "stale_5xx" (awaiting
\*            the fallback cache.match), "done" (response returned)
\*   first, second   what the first and the fallback cache.match returned
\*   held     the store's entry for the key when the first cache.match ran
\*   matches, fetches, puts   calls of cache.match, fetch(origin), cache.put
IdleInv ==
    [pc |-> "idle", method |-> "", pathname |-> "", query |-> <<>>, key |-> "",
     matches |-> 0, fetches |-> 0, puts |-> 0,
     first |-> NoResponse, second |-> NoResponse, held |-> NoEntry,
     held2 |-> NoEntry, written |-> FALSE, timer |-> "none",
     origin |-> NoOutcome,
     resp |-> NoResponse, log |-> <<>>, threw |-> FALSE]

Return(rec, response) == [rec EXCEPT !.pc = "done", !.resp = response]

\* Variant: the handler has no catch; the exception leaves worker.fetch.
WorkerError_Rethrow(rec) == [rec EXCEPT !.threw = TRUE, !.pc = "crashed"]

\* The catch of worker.fetch: logs WORKER_ERROR and returns the generic 500.
WorkerError(rec) ==
    Return([rec EXCEPT !.threw = TRUE, !.log = logEvent(env, @, "WORKER_ERROR")],
           createErrorResponse(500, "Internal Server Error", env))

\* A cache.put in flight: the key and the response being stored.
NoPut == [key |-> "", resp |-> NoResponse]

\* The response of a finished invocation leaves the worker before any other
\* step is taken: a finished invocation takes no further part in the
\* pipeline (its cache.put, if any, stays in `pending`).
Quiet == \A p \in Procs : inv[p].pc # "done"

Init ==
    /\ env \in Envs
    /\ matchExpired \in BOOLEAN
    /\ cache = [k \in CacheKeys |-> NoEntry]
    /\ inv = [p \in Procs |-> IdleInv]
    /\ pending = [p \in Procs |-> NoPut]
    /\ nreq = 0
    /\ kpath = "" /\ kbase = "" /\ kq1 = <<>> /\ kq2 = <<>>
    /\ key1 = "" /\ key2 = "" /\ kdone = FALSE
    /\ originUrl1 = NoUrl /\ originUrl2 = NoUrl
    /\ logType = "" /\ logOut = <<>> /\ cacheControl = "" /\ timeoutMs = 0

\* Variant: worker.fetch without the configuration check.
FetchStart_NoConfigCheck(rec, method, pathname, query) ==
    LET r0 == [IdleInv EXCEPT !.method = method, !.pathname = pathname,
                              !.query = query]
        validationError == validateRequest(method)
        cacheKey == createCacheKey(env.ORIGIN_BASE_URL, pathname, query)
    IN  IF pathname = "/health" THEN Return(r0, healthResponse(env))
        ELSE IF validationError # NoResponse THEN Return(r0, validationError)
        ELSE IF cacheKey.threw
        THEN WorkerError(r0)
        ELSE [r0 EXCEPT !.pc = "lookup", !.key = cacheKey.url]

\* worker.fetch up to its first await: health check, configuration check,
\* validateRequest, createCacheKey.
FetchStart(rec, method, pathname, query) ==
    LET r0 == [IdleInv EXCEPT !.method = method, !.pathname = pathname,
                              !.query = query]
        validationError == validateRequest(method)
        cacheKey == createCacheKey(env.ORIGIN_BASE_URL, pathname, query)
    IN  IF pathname = "/health" THEN Return(r0, healthResponse(env))
        ELSE IF env.ORIGIN_BASE_URL = "" \/ env.ORIGIN_AUTH_TOKEN = ""
        THEN Return(r0, createErrorResponse(500,
                 "Server Configuration Error - Missing environment variables", env))
        ELSE IF validationError # NoResponse THEN Return(r0, validationError)
        ELSE IF cacheKey.threw
        THEN WorkerError(r0)
        ELSE [r0 EXCEPT !.pc = "lookup", !.key = cacheKey.url]

\* An invocation slot is free when its invocation has returned and its
\* ctx.waitUntil work has settled; a new request takes the first free slot.
Free(p) == inv[p].pc = "idle" /\ pending[p] = NoPut

Fetch(p, method, pathname, query) ==
    /\ Quiet
    /\ Free(p)
    /\ \A q \in Procs : Free(q) => p <= q
    /\ nreq < MaxRequests
    /\ nreq' = nreq + 1
    /\ inv' = [inv EXCEPT ![p] = FetchStart(@, method, pathname, query)]
    /\ UNCHANGED <<env, matchExpired, cache, pending, keyVars>>

\* Step 3: the first cache.match settles. HIT returns; a miss logs CACHE_MISS
\* and calls fetchOrigin.
\* Variant: CACHE_MISS is logged before the lookup's result is tested.
LookupStep_LogsMissFirst(rec, found) ==
    LET r1 == [rec EXCEPT !.matches = @ + 1, !.first = found,
                          !.log = logEvent(env, @, "CACHE_MISS")]
    IN  IF found # NoResponse THEN Return(r1, hitResponse(found))
        ELSE [r1 EXCEPT !.fetches = @ + 1, !.timer = "armed", !.pc = "origin"]

LookupStep(rec, found) ==
    LET r1 == [rec EXCEPT !.matches = @ + 1, !.first = found]
    IN  IF found # NoResponse THEN Return(r1, hitResponse(found))
        ELSE [r1 EXCEPT !.log = logEvent(env, @, "CACHE_MISS"),
                        !.fetches = @ + 1, !.timer = "armed", !.pc = "origin"]

\* Variant: single-flight; a lookup waits while another invocation is
\* fetching the same key from the origin.
CacheLookup_SingleFlight(p) ==
    /\ Quiet
    /\ inv[p].pc = "lookup"
    /\ \A q \in Procs : ~(inv[q].pc = "origin" /\ inv[q].key = inv[p].key)
    /\ inv' = [inv EXCEPT ![p] = LookupStep([inv[p] EXCEPT !.held = cache[inv[p].key]],
                                            match(cache, inv[p].key))]
    /\ UNCHANGED <<env, matchExpired, cache, pending, nreq, keyVars>>

CacheLookup(p) ==
    /\ Quiet
    /\ inv[p].pc = "lookup"
    /\ inv' = [inv EXCEPT ![p] = LookupStep([inv[p] EXCEPT !.held = cache[inv[p].key]],
                                            match(cache, inv[p].key))]
    /\ UNCHANGED <<env, matchExpired, cache, pending, nreq, keyVars>>

\* Step 10 and the return: cache.put through ctx.waitUntil for 2xx and 5xx.
StoreStep(rec, final) ==
    IF shouldStore(final)
    THEN Return([rec EXCEPT !.puts = @ + 1,
                            !.log = logEvent(env, @, "CACHE_MISS_STORED")], final)
    ELSE Return(rec, final)

\* Variant: fetchOrigin without the clearTimeout of its catch block.
fetchOriginExit_NoClearInCatch(rec, outcome) ==
    [rec EXCEPT !.origin = outcome,
                !.timer = IF outcome.kind = "response" THEN "cleared"
                          ELSE IF outcome.kind = "AbortError" THEN "fired"
                          ELSE "armed"]

\* fetchOrigin ends: with a response after clearTimeout, or through its
\* catch block, which calls clearTimeout and rethrows (on an abort the timer
\* has fired already).
fetchOriginExit(rec, outcome) ==
    [rec EXCEPT !.origin = outcome, !.timer = "cleared"]

\* Variant: the catch block without the AbortError test; an abort is
\* handled like any other error.
OriginStep_AbortUnclassified(rec, outcome) ==
    LET r1 == fetchOriginExit(rec, outcome)
        originResponse == outcome.response
    IN  IF outcome.kind # "response"
        THEN Return([r1 EXCEPT !.log = logEvent(env, @, "ORIGIN_FETCH_ERROR")],
                    badGatewayResponse(errMessage(outcome, env, rec.pathname, rec.query)))
        ELSE LET r2 == IF Ok(originResponse)
                       THEN [r1 EXCEPT !.log = logEvent(env, @, "ORIGIN_FETCH_SUCCESS")]
                       ELSE r1
             IN  IF originResponse.status >= 500
                 THEN [r2 EXCEPT !.log = logEvent(env, @, "ORIGIN_ERROR"),
                                 !.pc = "stale_5xx"]
                 ELSE StoreStep(r2, finalResponse(originResponse, env))

\* Variant: every origin failure takes the stale fallback of the timeout.
OriginStep_FallbackOnAnyError(rec, outcome) ==
    LET r1 == fetchOriginExit(rec, outcome)
        originResponse == outcome.response
    IN  IF outcome.kind # "response"
        THEN [r1 EXCEPT !.log = logEvent(env, @, "ORIGIN_TIMEOUT"),
                        !.pc = "stale_timeout"]
        ELSE LET r2 == IF Ok(originResponse)
                       THEN [r1 EXCEPT !.log = logEvent(env, @, "ORIGIN_FETCH_SUCCESS")]
                       ELSE r1
             IN  IF originResponse.status >= 500
                 THEN [r2 EXCEPT !.log = logEvent(env, @, "ORIGIN_ERROR"),
                                 !.pc = "stale_5xx"]
                 ELSE StoreStep(r2, finalResponse(originResponse, env))

\* Variant: an origin 4xx takes the stale fallback of the 5xx.
OriginStep_FallbackOn4xx(rec, outcome) ==
    LET r1 == fetchOriginExit(rec, outcome)
        originResponse == outcome.response
    IN  IF outcome.kind = "AbortError"
        THEN [r1 EXCEPT !.log = logEvent(env, @, "ORIGIN_TIMEOUT"),
                        !.pc = "stale_timeout"]
        ELSE IF outcome.kind # "response"
        THEN Return([r1 EXCEPT !.log = logEvent(env, @, "ORIGIN_FETCH_ERROR")],
                    badGatewayResponse(errMessage(outcome, env, rec.pathname, rec.query)))
        ELSE LET r2 == IF Ok(originResponse)
                       THEN [r1 EXCEPT !.log = logEvent(env, @, "ORIGIN_FETCH_SUCCESS")]
                       ELSE r1
             IN  IF originResponse.status >= 400
                 THEN [r2 EXCEPT !.log = logEvent(env, @, "ORIGIN_ERROR"),
                                 !.pc = "stale_5xx"]
                 ELSE StoreStep(r2, finalResponse(originResponse, env))

\* fetchOrigin settles: the catch block (AbortError, other errors) or step 5.
OriginStep(rec, outcome) ==
    LET r1 == fetchOriginExit(rec, outcome)
        originResponse == outcome.response
    IN  IF outcome.kind = "AbortError"
        THEN [r1 EXCEPT !.log = logEvent(env, @, "ORIGIN_TIMEOUT"),
                        !.pc = "stale_timeout"]
        ELSE IF outcome.kind # "response"
        THEN Return([r1 EXCEPT !.log = logEvent(env, @, "ORIGIN_FETCH_ERROR")],
                    badGatewayResponse(errMessage(outcome, env, rec.pathname, rec.query)))
        ELSE LET r2 == IF Ok(originResponse)
                       THEN [r1 EXCEPT !.log = logEvent(env, @, "ORIGIN_FETCH_SUCCESS")]
                       ELSE r1
             IN  IF originResponse.status >= 500
                 THEN [r2 EXCEPT !.log = logEvent(env, @, "ORIGIN_ERROR"),
                                 !.pc = "stale_5xx"]
                 ELSE StoreStep(r2, finalResponse(originResponse, env))

\* Variant: the cache.put is not handed to ctx.waitUntil and is dropped
\* when the handler returns.
PutOf_Dropped(before, after) == NoPut

\* The cache.put of a returned response, if the step issued one.
PutOf(before, after) ==
    IF after.puts > before.puts THEN [key |-> after.key, resp |-> after.resp] ELSE NoPut

OriginSettles(p, outcome) ==
    /\ Quiet
    /\ inv[p].pc = "origin"
    /\ inv' = [inv EXCEPT ![p] = OriginStep(@, outcome)]
    /\ pending' = [pending EXCEPT ![p] = PutOf(inv[p], inv'[p])]
    /\ UNCHANGED <<env, matchExpired, cache, nreq, keyVars>>

\* Variant: without a stale entry the timeout branch falls through to the
\* generic error branch (no `return` after the stale check).
StaleTimeoutStep_FallsThrough(rec, found) ==
    LET r1 == [rec EXCEPT !.matches = @ + 1, !.second = found]
    IN  IF found # NoResponse
        THEN Return([r1 EXCEPT !.log = logEvent(env, @, "STALE_FALLBACK")],
                    staleResponse(found))
        ELSE Return([r1 EXCEPT !.log = logEvent(env, @, "ORIGIN_FETCH_ERROR")],
                    badGatewayResponse("The operation was aborted"))

\* Variant: the stale entry served after a timeout is written back.
StaleTimeoutStep_ReCaches(rec, found) ==
    LET r1 == [rec EXCEPT !.matches = @ + 1, !.second = found]
    IN  IF found # NoResponse
        THEN Return([r1 EXCEPT !.log = logEvent(env, @, "STALE_FALLBACK"),
                               !.puts = @ + 1],
                    staleResponse(found))
        ELSE Return(r1, createErrorResponse(504, "Gateway Timeout", env))

\* Variant: a timeout without a stale entry calls the origin once more.
StaleTimeoutStep_Retries(rec, found) ==
    LET r1 == [rec EXCEPT !.matches = @ + 1, !.second = found]
    IN  IF found # NoResponse
        THEN Return([r1 EXCEPT !.log = logEvent(env, @, "STALE_FALLBACK")],
                    staleResponse(found))
        ELSE IF rec.fetches < 2
        THEN [r1 EXCEPT !.fetches = @ + 1, !.pc = "origin"]
        ELSE Return(r1, createErrorResponse(504, "Gateway Timeout", env))

\* The fallback cache.match after a timeout settles: STALE or 504.
StaleTimeoutStep(rec, found) ==
    LET r1 == [rec EXCEPT !.matches = @ + 1, !.second = found]
    IN  IF found # NoResponse
        THEN Return([r1 EXCEPT !.log = logEvent(env, @, "STALE_FALLBACK")],
                    staleResponse(found))
        ELSE Return(r1, createErrorResponse(504, "Gateway Timeout", env))

\* Variant: the fallback lookup reads the store past the entry's freshness.
StaleLookupTimeout_ReadsExpired(p) ==
    /\ Quiet
    /\ inv[p].pc = "stale_timeout"
    /\ inv' = [inv EXCEPT ![p] = StaleTimeoutStep([inv[p] EXCEPT !.held2 = cache[inv[p].key]],
                                                 cache[inv[p].key].resp)]
    /\ UNCHANGED <<env, matchExpired, cache, pending, nreq, keyVars>>

StaleLookupTimeout(p) ==
    /\ Quiet
    /\ inv[p].pc = "stale_timeout"
    /\ inv' = [inv EXCEPT ![p] = StaleTimeoutStep([inv[p] EXCEPT !.held2 = cache[inv[p].key]],
                                                 match(cache, inv[p].key))]
    /\ UNCHANGED <<env, matchExpired, cache, pending, nreq, keyVars>>

\* Variant: the 5xx branch without the stale fallback (the error response is
\* always returned and stored).
Stale5xxStep_NoFallback(rec, found) ==
    LET r1 == [rec EXCEPT !.matches = @ + 1, !.second = found]
    IN  StoreStep([r1 EXCEPT !.log = logEvent(env, @, "CACHE_ERROR_RESPONSE")],
                  finalResponse(rec.origin.response, env))

\* The fallback cache.match after an origin 5xx settles: STALE, or the 5xx
\* response is returned and stored with the short TTL.
Stale5xxStep(rec, found) ==
    LET r1 == [rec EXCEPT !.matches = @ + 1, !.second = found]
    IN  IF found # NoResponse
        THEN Return([r1 EXCEPT !.log = logEvent(env, @, "STALE_FALLBACK")],
                    staleResponse(found))
        ELSE StoreStep([r1 EXCEPT !.log = logEvent(env, @, "CACHE_ERROR_RESPONSE")],
                       finalResponse(rec.origin.response, env))

StaleLookup5xx(p) ==
    /\ Quiet
    /\ inv[p].pc = "stale_5xx"
    /\ inv' = [inv EXCEPT ![p] = Stale5xxStep([inv[p] EXCEPT !.held2 = cache[inv[p].key]],
                                             match(cache, inv[p].key))]
    /\ pending' = [pending EXCEPT ![p] = PutOf(inv[p], inv'[p])]
    /\ UNCHANGED <<env, matchExpired, cache, nreq, keyVars>>

\* The cache.put registered with ctx.waitUntil completes: the entry replaces
\* whatever the store holds for the key.
\* History: the invocations that are between their two lookups of key k see
\* a write of k land.
NoteWrite(k) ==
    [q \in Procs |->
        IF inv[q].pc \in {"origin", "stale_timeout", "stale_5xx"} /\ inv[q].key = k
        THEN [inv[q] EXCEPT !.written = TRUE]
        ELSE inv[q]]

CachePut(p) ==
    /\ Quiet
    /\ pending[p] # NoPut
    /\ cache' = [cache EXCEPT ![pending[p].key] = [resp |-> pending[p].resp, fresh |-> TRUE]]
    /\ pending' = [pending EXCEPT ![p] = NoPut]
    /\ inv' = NoteWrite(pending[p].key)
    /\ UNCHANGED <<env, matchExpired, nreq, keyVars>>

\* Time passes: an entry's freshness (max-age / s-maxage) runs out.
Expire(k) ==
    /\ Quiet
    /\ cache[k] # NoEntry /\ cache[k].fresh
    /\ cache' = [cache EXCEPT ![k].fresh = FALSE]
    /\ UNCHANGED <<env, matchExpired, inv, pending, nreq, keyVars>>

\* worker.fetch has returned: the response goes to the client and the
\* invocation slot is free again.
Deliver(p) ==
    /\ inv[p].pc = "done"
    /\ inv' = [inv EXCEPT ![p] = IdleInv]
    /\ UNCHANGED <<env, matchExpired, cache, pending, nreq, keyVars>>

Next ==
    \/ \E p \in Procs, r \in Requests : Fetch(p, r.method, r.pathname, r.query)
    \/ \E p \in Procs : CacheLookup(p)
    \/ \E p \in Procs, o \in OriginOutcomes : OriginSettles(p, o)
    \/ \E p \in Procs : StaleLookupTimeout(p)
    \/ \E p \in Procs : StaleLookup5xx(p)
    \/ \E p \in Procs : CachePut(p)
    \/ \E k \in CacheKeys : Expire(k)
    \/ \E p \in Procs : Deliver(p)

Spec == Init /\ [][Next]_vars

\* ------------------------------------------------------ SpecLive
\* The timer of fetchOrigin fires: controller.abort() rejects the fetch with
\* an AbortError.
TimerFires(p) ==
    OriginSettles(p, [kind |-> "AbortError", response |-> NoResponse,
                      quotesUrl |-> FALSE])

\* A step the runtime takes on its own: an awaited cache.match settles, the
\* timer fires, a promise given to ctx.waitUntil completes, a returned
\* response is sent.
RuntimeStep ==
    \E p \in Procs :
        \/ CacheLookup(p)
        \/ TimerFires(p)
        \/ StaleLookupTimeout(p)
        \/ StaleLookup5xx(p)
        \/ CachePut(p)
        \/ Deliver(p)

\* What the runtime guarantees: it does not stop while such a step is
\* possible. The origin itself need never answer.
Fairness == WF_vars(RuntimeStep)

\* A deployed worker: the bindings are set (with bindings missing or
\* unparsable no request gets past the first step of worker.fetch), on a
\* platform whose cache.match returns fresh entries only.
InitLive ==
    /\ Init
    /\ ~matchExpired
    /\ env.ORIGIN_BASE_URL = "https://o"
    /\ env.ORIGIN_AUTH_TOKEN = "secret"
    /\ env.ENABLE_OBSERVABILITY_HEADERS = ""

SpecLive == InitLive /\ [][Next]_vars /\ Fairness

\* ------------------------------------------------------ SpecKey
\* The cache-key functions on bounded inputs.
ParamPool ==
    { Param("limit", <<"1">>), Param("limit", <<"2">>),
      Param("direction", <<"O", "&">>), Param("utm_source", <<"x">>) }

ParamLists == UNION { [1..n -> ParamPool] : n \in 0..MaxParams }

InitKey ==
    /\ kbase \in {"https://o"}
    /\ kpath \in {"/api"}
    /\ kq1 \in ParamLists
    /\ kq2 \in ParamLists
    /\ key1 = "" /\ key2 = "" /\ kdone = FALSE
    /\ originUrl1 = NoUrl /\ originUrl2 = NoUrl
    /\ logType = "" /\ logOut = <<>> /\ cacheControl = "" /\ timeoutMs = 0
    /\ env \in {e \in Envs : e.ORIGIN_BASE_URL = "" /\ e.ORIGIN_AUTH_TOKEN = ""
                              /\ e.ENABLE_OBSERVABILITY_HEADERS = ""}
    /\ matchExpired = FALSE
    /\ cache = [k \in CacheKeys |-> NoEntry]
    /\ inv = [p \in Procs |-> IdleInv]
    /\ pending = [p \in Procs |-> NoPut]
    /\ nreq = 0

\* createCacheKey applied to the two URLs.
Normalize ==
    /\ ~kdone
    /\ key1' = createCacheKey(kbase, kpath, kq1).url
    /\ key2' = createCacheKey(kbase, kpath, kq2).url
    /\ kdone' = TRUE
    /\ UNCHANGED <<kpath, kbase, kq1, kq2, originUrl1, originUrl2, fnVars, pipeVars>>

NextKey == Normalize

SpecKey == InitKey /\ [][NextKey]_vars


\* ------------------------------------------------------ SpecFault
\* A platform call inside the handler's try throws: the awaited cache.match
\* (first or fallback lookup), or the construction of the response and the
\* scheduling of its cache.put after the origin answered.
LookupPcs == {"lookup", "stale_timeout", "stale_5xx"}

Throws(p) ==
    /\ Quiet
    /\ inv[p].pc \in LookupPcs \/ inv[p].pc = "origin"
    /\ \E o \in {x \in OriginOutcomes : x.kind = "response" /\ x.response.status < 500} :
          inv' = [inv EXCEPT ![p] =
                    WorkerError(IF inv[p].pc \in LookupPcs
                                THEN [inv[p] EXCEPT !.matches = @ + 1]
                                ELSE fetchOriginExit(inv[p], o))]
    /\ UNCHANGED <<env, matchExpired, cache, pending, nreq, keyVars>>

\* The cache.put handed to ctx.waitUntil rejects: nothing is stored, and the
\* response has already been returned.
PutRejects(p) ==
    /\ Quiet
    /\ pending[p] # NoPut
    /\ pending' = [pending EXCEPT ![p] = NoPut]
    /\ UNCHANGED <<env, matchExpired, cache, inv, nreq, keyVars>>

NextFault ==
    \/ Next
    \/ \E p \in Procs : Throws(p)
    \/ \E p \in Procs : PutRejects(p)

SpecFault == Init /\ [][NextFault]_vars

\* ------------------------------------------------------ SpecOrigin
\* fetchOrigin's URL and createCacheKey on the same bounded inputs.
OriginParamPool ==
    { Param("limit", <<"1">>), Param("direction", <<"O", "&">>),
      Param("utm_source", <<"x">>), Param("key", <<"c">>) }

OriginParamLists == UNION { [1..n -> OriginParamPool] : n \in 0..MaxParams }

InitOrigin ==
    /\ kbase \in {"https://o", "https://o/"}
    /\ kpath \in {"/api"}
    /\ kq1 \in OriginParamLists
    /\ kq2 \in OriginParamLists
    /\ key1 = "" /\ key2 = "" /\ kdone = FALSE
    /\ originUrl1 = NoUrl /\ originUrl2 = NoUrl
    /\ logType = "" /\ logOut = <<>> /\ cacheControl = "" /\ timeoutMs = 0
    /\ env \in {e \in Envs : e.ORIGIN_BASE_URL = "https://o"
                              /\ e.ORIGIN_AUTH_TOKEN = "secret"
                              /\ e.ENABLE_OBSERVABILITY_HEADERS = ""}
    /\ matchExpired = FALSE
    /\ cache = [k \in CacheKeys |-> NoEntry]
    /\ inv = [p \in Procs |-> IdleInv]
    /\ pending = [p \in Procs |-> NoPut]
    /\ nreq = 0

\* The worker deployed with ORIGIN_BASE_URL = kbase.
Deployed == [env EXCEPT !.ORIGIN_BASE_URL = kbase]

\* createCacheKey and fetchOrigin applied to the two URLs.
BuildOrigin ==
    /\ ~kdone
    /\ key1' = createCacheKey(kbase, kpath, kq1).url
    /\ key2' = createCacheKey(kbase, kpath, kq2).url
    /\ originUrl1' = originUrlObj(Deployed, kpath, kq1).url
    /\ originUrl2' = originUrlObj(Deployed, kpath, kq2).url
    /\ kdone' = TRUE
    /\ UNCHANGED <<kpath, kbase, kq1, kq2, fnVars, pipeVars>>

NextOrigin == BuildOrigin

SpecOrigin == InitOrigin /\ [][NextOrigin]_vars


\* ------------------------------------------------------ SpecLog
\* logEvent for every event type the worker logs and every LOG_LEVEL.
EventTypes ==
    {"CACHE_MISS", "ORIGIN_TIMEOUT", "STALE_FALLBACK", "ORIGIN_FETCH_ERROR",
     "ORIGIN_FETCH_SUCCESS", "ORIGIN_ERROR", "CACHE_ERROR_RESPONSE",
     "CACHE_MISS_STORED", "WORKER_ERROR"}

LogLevels == {"", "debug", "info", "warn", "error", "WARN", "verbose"}

\* A configured worker.
DeployedEnv ==
    CHOOSE e \in Envs : /\ e.ORIGIN_BASE_URL = "https://o"
                        /\ e.ORIGIN_AUTH_TOKEN = "secret"
                        /\ e.ENABLE_OBSERVABILITY_HEADERS = ""

InitFn ==
    /\ kbase = "" /\ kpath = "" /\ kq1 = <<>> /\ kq2 = <<>>
    /\ key1 = "" /\ key2 = "" /\ kdone = FALSE
    /\ originUrl1 = NoUrl /\ originUrl2 = NoUrl
    /\ matchExpired = FALSE
    /\ cache = [k \in CacheKeys |-> NoEntry]
    /\ inv = [p \in Procs |-> IdleInv]
    /\ pending = [p \in Procs |-> NoPut]
    /\ nreq = 0

InitLog ==
    /\ InitFn
    /\ env \in {[DeployedEnv EXCEPT !.LOG_LEVEL = l] : l \in LogLevels}
    /\ logType \in EventTypes
    /\ logOut = <<>> /\ cacheControl = "" /\ timeoutMs = 0

\* One call of logEvent.
Emit ==
    /\ ~kdone
    /\ logOut' = logEvent(env, <<>>, logType)
    /\ kdone' = TRUE
    /\ UNCHANGED <<kpath, kbase, kq1, kq2, key1, key2, originUrl1, originUrl2,
                   logType, cacheControl, timeoutMs, pipeVars>>

NextLog == Emit

SpecLog == InitLog /\ [][NextLog]_vars

\* ------------------------------------------------------ SpecTtl
\* getCacheHeaders and fetchOrigin's timeout for bounded numeric bindings.
TtlValues == {Unset} \cup {[set |-> TRUE, n |-> v] : v \in 0..MaxTtl}

InitTtl ==
    /\ InitFn
    /\ env \in {[DeployedEnv EXCEPT !.BROWSER_TTL = b, !.EDGE_TTL = e,
                                    !.STALE_WHILE_REVALIDATE_TTL = w,
                                    !.ORIGIN_TIMEOUT_MS = t] :
                 b \in TtlValues, e \in TtlValues, w \in TtlValues, t \in TtlValues}
    /\ logType = "" /\ logOut = <<>> /\ cacheControl = "" /\ timeoutMs = 0

\* timeoutMs of fetchOrigin.
originTimeoutMs(e) == ParseIntOr(e.ORIGIN_TIMEOUT_MS, 3000)

\* The Cache-Control of a success response and the timeout, as computed.
ComputeTtl ==
    /\ ~kdone
    /\ cacheControl' = getCacheHeaders(200, env.BROWSER_TTL, env.EDGE_TTL,
                                       env.STALE_WHILE_REVALIDATE_TTL)
    /\ timeoutMs' = originTimeoutMs(env)
    /\ kdone' = TRUE
    /\ UNCHANGED <<kpath, kbase, kq1, kq2, key1, key2, originUrl1, originUrl2,
                   logType, logOut, pipeVars>>

NextTtl == ComputeTtl

SpecTtl == InitTtl /\ [][NextTtl]_vars

\* ====================================================== properties
Done(p) == inv[p].pc = "done"
Logged(p, eventType) == \E i \in 1..Len(inv[p].log) : inv[p].log[i] = eventType
TimedOut(p) == inv[p].origin.kind = "AbortError"
OriginStatus(p) == inv[p].origin.response.status
Origin5xx(p) == inv[p].origin.kind = "response" /\ OriginStatus(p) >= 500
Origin4xx(p) ==
    inv[p].origin.kind = "response" /\ OriginStatus(p) >= 400 /\ OriginStatus(p) <= 499
NoWrite(p) == inv[p].puts = 0 /\ pending[p] = NoPut
ShortCacheControl == "public, max-age=10, s-maxage=10"

\* Number of occurrences of the pair e in the list q.
Count(e, q) == Cardinality({i \in 1..Len(q) : q[i] = e})

\* q1 and q2 hold the same multiset of allow-listed key/value pairs.
SameAllowedMultiset(q1, q2) ==
    \A e \in ParamPool : e.k \in allowlist => Count(e, q1) = Count(e, q2)

\* C1 (SpecKey): two query-parameter lists with the same multiset of
\* allow-listed key/value pairs get the same cache key, whatever their order
\* (repeated keys included) and whatever other parameters are present.
C1_SameMultisetSameKey ==
    (kdone /\ SameAllowedMultiset(kq1, kq2)) => key1 = key2

\* C2: a request whose first lookup ran while the store held an expired 200
\* entry for its key, with an origin that does not answer within the timeout,
\* returns that entry's body with X-Cache: STALE and status 200.
C2_ExpiredEntryServedStale ==
    \A p \in Procs :
        (/\ Done(p)
         /\ inv[p].held # NoEntry /\ ~inv[p].held.fresh
         /\ inv[p].held.resp.status = 200
         /\ inv[p].origin.kind \in {"", "AbortError"})
        => (/\ inv[p].resp.xcache = "STALE"
            /\ inv[p].resp.status = 200
            /\ inv[p].resp.body = inv[p].held.resp.body)

\* C3: when the origin fetch times out and the fallback lookup finds no entry
\* for the key (in particular when the store holds none), the request returns
\* 504 and issues no cache.put, so the store still holds no entry for the key
\* when the response is returned.
C3_TimeoutNoEntry504 ==
    \A p \in Procs :
        /\ (Done(p) /\ TimedOut(p) /\ inv[p].second = NoResponse)
           => (/\ inv[p].resp.status = 504
               /\ inv[p].resp.body = "Gateway Timeout"
               /\ inv[p].matches = 2
               /\ NoWrite(p))
        /\ (Done(p) /\ TimedOut(p) /\ cache[inv[p].key] = NoEntry)
           => (inv[p].second = NoResponse /\ inv[p].resp.status = 504)

C3_Witness ==
    \E p \in Procs :
        /\ Done(p) /\ TimedOut(p)
        /\ inv[p].held = NoEntry /\ inv[p].second = NoResponse
        /\ inv[p].resp.status = 504
        /\ cache[inv[p].key] = NoEntry

\* C4: an origin 5xx with no entry found by the fallback lookup is returned
\* with the origin's status and body and the 10 s Cache-Control and handed to
\* cache.put; a request whose lookup finds that entry unexpired is answered
\* HIT with the same status and body, without an origin fetch.
C4_ServerErrorShortCached ==
    \A p \in Procs :
        /\ (Done(p) /\ Origin5xx(p) /\ inv[p].second = NoResponse)
           => (/\ inv[p].resp.status = OriginStatus(p)
               /\ inv[p].resp.body = inv[p].origin.response.body
               /\ inv[p].resp.cc = ShortCacheControl
               /\ inv[p].puts = 1
               /\ pending[p] = [key |-> inv[p].key, resp |-> inv[p].resp])
        /\ (Done(p) /\ inv[p].held.fresh /\ inv[p].held.resp.status >= 500)
           => (/\ inv[p].resp.xcache = "HIT"
               /\ inv[p].resp.status = inv[p].held.resp.status
               /\ inv[p].resp.body = inv[p].held.resp.body
               /\ inv[p].resp.cc = ShortCacheControl
               /\ inv[p].fetches = 0)

C4_Witness ==
    \E p \in Procs :
        /\ Done(p) /\ inv[p].held.fresh
        /\ inv[p].held.resp.status = 500 /\ inv[p].held.resp.body = "b4"
        /\ inv[p].held.resp.cc = ShortCacheControl
        /\ inv[p].resp.xcache = "HIT" /\ inv[p].resp.status = 500
        /\ inv[p].fetches = 0

\* C5: an origin 5xx with an entry found by the fallback lookup returns that
\* entry with X-Cache: STALE, not the 5xx response, and issues no cache.put.
C5_ServerErrorServedStale ==
    \A p \in Procs :
        (Done(p) /\ Origin5xx(p) /\ inv[p].second # NoResponse)
        => (/\ inv[p].resp = [inv[p].second EXCEPT !.xcache = "STALE", !.cors = TRUE]
            /\ NoWrite(p))

C5_Witness ==
    \E p \in Procs :
        /\ Done(p) /\ Origin5xx(p) /\ inv[p].second # NoResponse
        /\ inv[p].resp.xcache = "STALE" /\ inv[p].resp.status = 200
        /\ inv[p].resp.body # inv[p].origin.response.body

\* C6: an origin 4xx is returned with its status and body and Cache-Control:
\* no-store, after a single cache lookup and without cache.put; the store
\* never holds a 4xx entry, so a later identical request is not a HIT on it.
C6_ClientErrorNeverCached ==
    /\ \A p \in Procs :
        (Done(p) /\ Origin4xx(p))
        => (/\ inv[p].resp.status = OriginStatus(p)
            /\ inv[p].resp.body = inv[p].origin.response.body
            /\ inv[p].resp.cc = "no-store"
            /\ inv[p].matches = 1
            /\ inv[p].fetches = 1
            /\ NoWrite(p))
    /\ \A k \in CacheKeys : cache[k].resp.status < 400 \/ cache[k].resp.status > 499

C6_Witness ==
    \E p \in Procs :
        /\ Done(p) /\ Origin4xx(p) /\ nreq = 2
        /\ inv[p].resp.status = 400 /\ inv[p].resp.cc = "no-store"
        /\ inv[p].first = NoResponse /\ inv[p].fetches = 1
        /\ \A k \in CacheKeys : cache[k] = NoEntry
        /\ \A q \in Procs : pending[q] = NoPut

\* C7: a request whose lookup runs while the store holds an unexpired entry
\* for its key is answered with that entry (status, body and headers as
\* stored) with X-Cache: HIT, without origin fetch or cache write; the
\* response is a function of the entry alone, so repeated requests return
\* identical bodies.
C7_FreshEntryHit ==
    \A p \in Procs :
        (Done(p) /\ inv[p].held.fresh)
        => (/\ inv[p].resp = [inv[p].held.resp EXCEPT !.xcache = "HIT", !.cors = TRUE]
            /\ inv[p].resp.xcache = "HIT"
            /\ inv[p].fetches = 0
            /\ NoWrite(p))

C7_Witness ==
    \E p \in Procs :
        /\ Done(p) /\ inv[p].query = Query2
        /\ inv[p].held.fresh /\ inv[p].held.resp.body = "b1"
        /\ inv[p].resp.xcache = "HIT" /\ inv[p].resp.body = "b1"
        /\ inv[p].resp.status = 200

\* C8: every response worker.fetch returns carries the CORS headers
\* (Access-Control-Allow-Origin: * among them).
C8_CorsOnEveryResponse ==
    \A p \in Procs : Done(p) => inv[p].resp.cors

C8_Witness ==
    \E p \in Procs :
        /\ Done(p) /\ inv[p].resp.xcache = "MISS" /\ inv[p].resp.status = 200
        /\ inv[p].resp.cors

\* C9: every OPTIONS request, for any path and configuration, is answered 204
\* with an empty body and CORS headers, with no origin contact, no cache
\* access and no CACHE_MISS or ORIGIN_FETCH_SUCCESS event.
C9_OptionsAlways204 ==
    \A p \in Procs :
        (Done(p) /\ inv[p].method = "OPTIONS")
        => (/\ inv[p].resp.status = 204 /\ inv[p].resp.body = ""
            /\ inv[p].resp.cors
            /\ inv[p].matches = 0 /\ inv[p].fetches = 0 /\ NoWrite(p)
            /\ ~Logged(p, "CACHE_MISS") /\ ~Logged(p, "ORIGIN_FETCH_SUCCESS"))

\* C10: every request whose method is neither GET nor OPTIONS, for any path,
\* is answered 405 with CORS headers, with no origin contact and no cache
\* access.
C10_OtherMethods405 ==
    \A p \in Procs :
        (Done(p) /\ inv[p].method \notin {"GET", "OPTIONS"})
        => (/\ inv[p].resp.status = 405
            /\ inv[p].resp.cors
            /\ inv[p].matches = 0 /\ inv[p].fetches = 0 /\ NoWrite(p))


\* C11: GET /health returns 200 with CORS headers and a body that shows, for
\* ORIGIN_BASE_URL and ORIGIN_AUTH_TOKEN, only whether each is set, with no
\* cache lookup, cache write or origin contact, whatever the configuration.
C11_HealthAlways200 ==
    \A p \in Procs :
        (Done(p) /\ inv[p].method = "GET" /\ inv[p].pathname = "/health")
        => (/\ inv[p].resp.status = 200
            /\ inv[p].resp.cors
            /\ inv[p].resp.body =
                   "ok " \o (IF env.ORIGIN_BASE_URL = "" THEN "missing" ELSE "***")
                   \o " " \o (IF env.ORIGIN_AUTH_TOKEN = "" THEN "missing" ELSE "***")
            /\ inv[p].matches = 0 /\ inv[p].fetches = 0 /\ NoWrite(p)
            /\ inv[p].log = <<>>)

C11_Witness ==
    \E p \in Procs :
        /\ Done(p) /\ inv[p].method = "GET" /\ inv[p].pathname = "/health"
        /\ env.ORIGIN_BASE_URL # "" /\ env.ORIGIN_AUTH_TOKEN = ""
        /\ inv[p].resp.status = 200 /\ inv[p].resp.body = "ok *** missing"

ConfigMissing == env.ORIGIN_BASE_URL = "" \/ env.ORIGIN_AUTH_TOKEN = ""
ProxiedGet(p) == inv[p].method = "GET" /\ inv[p].pathname # "/health"
ObservabilityOn == env.ENABLE_OBSERVABILITY_HEADERS # "false"

\* C12 (as claimed): with ORIGIN_BASE_URL or ORIGIN_AUTH_TOKEN missing, a
\* proxied GET is answered 500 with X-Cache: ERROR, and never contacts the
\* origin or the cache.
C12_MissingConfig500XCacheError ==
    \A p \in Procs :
        (Done(p) /\ ProxiedGet(p) /\ ConfigMissing)
        => (/\ inv[p].resp.status = 500
            /\ inv[p].resp.xcache = "ERROR"
            /\ inv[p].matches = 0 /\ inv[p].fetches = 0 /\ NoWrite(p))

\* C12 (amended): with ORIGIN_BASE_URL or ORIGIN_AUTH_TOKEN missing, a proxied
\* GET is answered 500 (configuration error), with X-Cache: ERROR unless
\* ENABLE_OBSERVABILITY_HEADERS is 'false' (then without X-Cache), and never
\* contacts the origin or the cache.
C12_MissingConfig500 ==
    \A p \in Procs :
        (Done(p) /\ ProxiedGet(p) /\ ConfigMissing)
        => (/\ inv[p].resp.status = 500
            /\ inv[p].resp.body =
                   "Server Configuration Error - Missing environment variables"
            /\ inv[p].resp.xcache = (IF ObservabilityOn THEN "ERROR" ELSE "")
            /\ inv[p].matches = 0 /\ inv[p].fetches = 0 /\ NoWrite(p))

C12_Witness ==
    \E p \in Procs :
        /\ Done(p) /\ ProxiedGet(p)
        /\ env.ORIGIN_BASE_URL # "" /\ env.ORIGIN_AUTH_TOKEN = ""
        /\ ~ObservabilityOn
        /\ inv[p].resp.status = 500 /\ inv[p].resp.xcache = ""


NetworkError(p) == inv[p].origin.kind = "TypeError"
FullCacheControl == "public, max-age=60, s-maxage=300, stale-while-revalidate=30"

\* C13: an origin fetch that fails with an error other than the timeout is
\* answered 502 with the error's message, after the one lookup that missed
\* (no fallback lookup, whatever the cache holds by then) and without a
\* cache.put.
C13_NetworkError502 ==
    \A p \in Procs :
        (Done(p) /\ NetworkError(p))
        => (/\ inv[p].resp.status = 502
            /\ ~inv[p].origin.quotesUrl => inv[p].resp.body = "Bad Gateway: fetch failed"
            /\ inv[p].resp.cors
            /\ inv[p].matches = 1 /\ inv[p].second = NoResponse
            /\ NoWrite(p)
            /\ Logged(p, "ORIGIN_FETCH_ERROR"))

C13_Witness ==
    \E p \in Procs :
        /\ Done(p) /\ NetworkError(p)
        /\ cache[inv[p].key] # NoEntry
        /\ inv[p].resp.status = 502

\* C14 (as claimed): every origin response with a status below 400 is returned
\* with X-Cache: MISS and the full Cache-Control, without a fallback lookup,
\* and is put in the cache.
C14_Below400MissAndStored ==
    \A p \in Procs :
        (Done(p) /\ inv[p].origin.kind = "response" /\ OriginStatus(p) < 400)
        => (/\ inv[p].resp.status = OriginStatus(p)
            /\ inv[p].resp.xcache = "MISS"
            /\ inv[p].resp.cc = FullCacheControl
            /\ inv[p].matches = 1
            /\ inv[p].puts = 1
            /\ pending[p] = [key |-> inv[p].key, resp |-> inv[p].resp])

\* C14 (amended): every origin response with a status below 400 is returned
\* with the full Cache-Control and, unless ENABLE_OBSERVABILITY_HEADERS is
\* 'false', X-Cache: MISS, without a fallback lookup; it is put in the cache
\* if its status is 2xx and is not put in the cache if its status is 3xx.
C14_Below400Miss2xxStored ==
    \A p \in Procs :
        (Done(p) /\ inv[p].origin.kind = "response" /\ OriginStatus(p) < 400)
        => (/\ inv[p].resp.status = OriginStatus(p)
            /\ inv[p].resp.body = inv[p].origin.response.body
            /\ inv[p].resp.xcache = (IF ObservabilityOn THEN "MISS" ELSE "")
            /\ inv[p].resp.cc = FullCacheControl
            /\ inv[p].matches = 1
            /\ (OriginStatus(p) < 300
                => /\ inv[p].puts = 1
                   /\ pending[p] = [key |-> inv[p].key, resp |-> inv[p].resp])
            /\ (OriginStatus(p) >= 300 => NoWrite(p)))

C14_Witness ==
    \E p \in Procs :
        /\ Done(p) /\ inv[p].origin.kind = "response"
        /\ OriginStatus(p) = 304 /\ inv[p].resp.status = 304
        /\ inv[p].resp.cc = FullCacheControl
        /\ NoWrite(p)

\* C15: with the observability headers enabled, every response carries an
\* X-Cache header that is HIT, MISS, STALE or ERROR, and X-Proxy-Version.
C15_EveryResponseXCacheAndVersion ==
    \A p \in Procs :
        (Done(p) /\ ObservabilityOn)
        => (/\ inv[p].resp.xcache \in {"HIT", "MISS", "STALE", "ERROR"}
            /\ inv[p].resp.version)

\* C16: a response carries X-Proxy-Time-Ms only if the request it answers
\* called the origin.
C16_TimeMsOnlyAfterOriginCall ==
    \A p \in Procs :
        (Done(p) /\ inv[p].resp.timems) => inv[p].fetches > 0


\* C17: an exception raised in the pipeline (cache key construction, the
\* first or the fallback cache.match, response construction, scheduling the
\* cache.put) is caught, logged as WORKER_ERROR and answered with the generic
\* 500; no request ends by propagating the exception, and a request has no
\* response before it ends and a well-formed one when it ends.
C17_ExceptionsBecome500 ==
    \A p \in Procs :
        /\ inv[p].pc # "crashed"
        /\ ~Done(p) => inv[p].resp = NoResponse
        /\ Done(p) => (inv[p].resp.status \in 200..599 /\ inv[p].resp.cors)
        /\ (Done(p) /\ inv[p].threw)
           => (/\ inv[p].resp.status = 500
               /\ inv[p].resp.body = "Internal Server Error"
               /\ Logged(p, "WORKER_ERROR")
               /\ NoWrite(p))

C17_Witness ==
    \E p \in Procs :
        /\ Done(p) /\ inv[p].threw
        /\ TimedOut(p) /\ inv[p].matches = 2
        /\ inv[p].resp.status = 500

UpstreamKeys(url) == { i \in DOMAIN url.params : url.params[i].k = "key" }

\* C18: the upstream URL carries exactly one 'key' parameter, whose value is
\* the configured ORIGIN_AUTH_TOKEN, whatever 'key' parameters the client sent.
C18_UpstreamKeyIsToken ==
    kdone => /\ Cardinality(UpstreamKeys(originUrl1)) = 1
             /\ \A i \in UpstreamKeys(originUrl1) :
                    originUrl1.params[i].v = <<env.ORIGIN_AUTH_TOKEN>>
             /\ originUrl1.path = "https://o/api"

C18_Witness ==
    /\ kdone
    /\ Len(kq1) = 3 /\ kq1[1].k = "key" /\ kq1[2].k = "limit" /\ kq1[3].k = "key"
    /\ originUrl1.params = <<Param("key", <<"secret">>), Param("limit", <<"1">>)>>

\* C19: the cache key does not contain ORIGIN_BASE_URL (it is the path and
\* the normalized query), so a deployment with another base URL computes the
\* same key for the same request.
C19_KeyWithoutOriginBase ==
    kdone => /\ key1 = cacheKeyUrl("", kpath, kq1)
             /\ key1 = createCacheKey("https://o2", kpath, kq1).url

\* C20: no parameter outside the allow-list appears in the cache key or in
\* the upstream URL (which carries, besides the allow-listed ones, only the
\* key the worker adds).
C20_OnlyAllowlistedForwarded ==
    kdone => /\ key1 = cacheKeyUrl(kbase, kpath, FilterAllowed(kq1))
             /\ \A i \in DOMAIN originUrl1.params :
                    originUrl1.params[i].k \in allowlist \cup {"key"}


Stale(p) == Done(p) /\ inv[p].resp.xcache = "STALE"

\* C24: a request answered from the stale fallback, after a timeout or after
\* an origin 5xx, returns the status and body of the entry the fallback
\* lookup found, and issues no cache.put.
C24_StaleVerbatimNoPut ==
    \A p \in Procs :
        Stale(p)
        => (/\ TimedOut(p) \/ Origin5xx(p)
            /\ inv[p].second # NoResponse
            /\ inv[p].resp.status = inv[p].second.status
            /\ inv[p].resp.body = inv[p].second.body
            /\ inv[p].resp.cc = inv[p].second.cc
            /\ NoWrite(p)
            /\ cache[inv[p].key] = inv[p].held2
            /\ ~Logged(p, "CACHE_MISS_STORED"))

C24_Witness ==
    \E p \in Procs :
        /\ Stale(p) /\ TimedOut(p)
        /\ inv[p].resp.status = 200 /\ inv[p].resp.body = "b1"
        /\ cache[inv[p].key].resp.body = "b1"
        /\ NoWrite(p)

\* C25: a response marked STALE is built from an entry that is past its
\* freshness window; a fresh entry is not served as STALE, also when it was
\* stored between the request's two lookups.
C25_StaleOnlyFromExpiredEntry ==
    \A p \in Procs : Stale(p) => ~inv[p].held2.fresh

\* C26: every response marked STALE has status 200.
C26_StaleIs200 ==
    \A p \in Procs : Stale(p) => inv[p].resp.status = 200

\* C28: a request calls the origin at most once, whatever the outcome of
\* the call (timeout, network error, 4xx, 5xx).
C28_AtMostOneOriginFetch ==
    \A p \in Procs :
        /\ inv[p].fetches <= 1
        /\ inv[p].origin # NoOutcome => inv[p].fetches = 1
        /\ inv[p].pc = "origin" => (inv[p].fetches = 1 /\ inv[p].origin = NoOutcome)

C28_Witness ==
    \E p \in Procs :
        /\ Done(p) /\ TimedOut(p)
        /\ inv[p].resp.status = 504
        /\ inv[p].fetches = 1

\* C29: the fallback lookup happens only after the origin call ended with a
\* timeout or a 5xx; a request whose origin call returned a status below 500
\* or failed with a network error performs exactly one lookup.
C29_FallbackOnlyAfterFailure ==
    \A p \in Procs :
        /\ inv[p].matches <= 2
        /\ inv[p].pc = "origin" => inv[p].matches = 1
        /\ (inv[p].matches = 2 \/ inv[p].second # NoResponse)
           => (TimedOut(p) \/ Origin5xx(p))
        /\ (Done(p) /\ inv[p].fetches = 1 /\ ~TimedOut(p) /\ ~Origin5xx(p))
           => (inv[p].matches = 1 /\ inv[p].held2 = NoEntry)

C29_Witness ==
    \E p \in Procs :
        /\ Done(p) /\ Origin4xx(p)
        /\ cache[inv[p].key] # NoEntry
        /\ inv[p].matches = 1
        /\ inv[p].resp.status = 400


WithName(q, name) == SelectSeq(q, LAMBDA e : e.k = name)

\* The allow-listed parameters of q by name: direction, limit, station_id.
ByKeyName(q) ==
    WithName(q, "direction") \o WithName(q, "limit") \o WithName(q, "station_id")

\* C23: the cache key is the base and path, followed, when the request has
\* allow-listed parameters, by '?' and those parameters ordered by name, each
\* as encoded-name '=' encoded-value, joined with '&'; without allow-listed
\* parameters there is no '?'.
C23_NormalizedQueryInKey ==
    kdone =>
        LET kept == ByKeyName(kq1)
        IN  /\ key1 = kbase \o kpath \o
                      (IF kept = <<>> THEN ""
                       ELSE "?" \o JoinAmp([i \in 1..Len(kept) |-> EncodePair(kept[i])]))
            /\ (\A i \in DOMAIN kq1 : kq1[i].k \notin allowlist) => key1 = "https://o/api"
            /\ kq1 = <<Param("limit", <<"1">>), Param("utm_source", <<"x">>),
                       Param("direction", <<"O", "&">>)>>
               => key1 = "https://o/api?direction=O%26&limit=1"

C23_Witness ==
    /\ kdone
    /\ kq1 = <<Param("limit", <<"1">>), Param("utm_source", <<"x">>),
               Param("direction", <<"O", "&">>)>>
    /\ key1 = "https://o/api?direction=O%26&limit=1"


\* C27: the timeout timer is armed exactly while fetchOrigin is in flight;
\* on every way fetchOrigin ends (response, abort, other error) the timer has
\* been cancelled, so no request is answered with its timer still armed.
C27_TimerCancelledOnEveryExit ==
    \A p \in Procs :
        /\ inv[p].timer = "armed" <=> inv[p].pc = "origin"
        /\ inv[p].origin # NoOutcome => inv[p].timer = "cleared"
        /\ inv[p].fetches = 0 => inv[p].timer = "none"

C27_Witness ==
    \E p \in Procs :
        /\ Done(p) /\ NetworkError(p)
        /\ inv[p].resp.status = 502
        /\ inv[p].timer = "cleared"


\* The response worker.fetch gives the request of p under the bindings e,
\* with the cache lookups and the origin behaving as they did for p.
Replay(p, e) ==
    LET rec == inv[p]
        validationError == validateRequest(rec.method)
    IN  IF rec.pathname = "/health" THEN healthResponse(e)
        ELSE IF e.ORIGIN_BASE_URL = "" \/ e.ORIGIN_AUTH_TOKEN = ""
        THEN createErrorResponse(500,
                 "Server Configuration Error - Missing environment variables", e)
        ELSE IF validationError # NoResponse THEN validationError
        ELSE IF rec.threw THEN createErrorResponse(500, "Internal Server Error", e)
        ELSE IF rec.first # NoResponse THEN hitResponse(rec.first)
        ELSE IF rec.origin.kind = "AbortError"
        THEN IF rec.second # NoResponse THEN staleResponse(rec.second)
             ELSE createErrorResponse(504, "Gateway Timeout", e)
        ELSE IF rec.origin.kind = "TypeError"
        THEN badGatewayResponse(errMessage(rec.origin, e, rec.pathname, rec.query))
        ELSE IF rec.origin.response.status >= 500 /\ rec.second # NoResponse
        THEN staleResponse(rec.second)
        ELSE finalResponse(rec.origin.response, e)

\* The bindings with another value of the credential (set stays set).
OtherToken(e) ==
    [e EXCEPT !.ORIGIN_AUTH_TOKEN = IF @ = "" THEN "" ELSE "secret2"]

\* C22: the response of every request is the one the same request gets, with
\* the same cache and origin behaviour, when ORIGIN_AUTH_TOKEN has another
\* value: no response body or header depends on the credential.
C22_ResponseIndependentOfToken ==
    \A p \in Procs : Done(p) => inv[p].resp = Replay(p, OtherToken(env))


InFlight(p) == inv[p].pc \in {"lookup", "origin", "stale_timeout", "stale_5xx"}

\* C21: every request that reached the pipeline is eventually answered, with
\* no help from the origin (only the timer is fair); and a request whose
\* origin call was aborted by the timer is answered with the STALE entry of
\* the fallback lookup or with 504.
C21_TimeoutBoundsEveryRequest ==
    /\ \A p \in Procs : InFlight(p) ~> Done(p)
    /\ [](\A p \in Procs :
            (Done(p) /\ TimedOut(p))
            => \/ inv[p].resp.xcache = "STALE" /\ inv[p].second # NoResponse
               \/ inv[p].resp.status = 504 /\ inv[p].second = NoResponse)

C21_Witness ==
    \E p \in Procs :
        /\ Done(p) /\ TimedOut(p)
        /\ inv[p].resp.xcache = "STALE"
        /\ inv[p].timer = "cleared"

\* C30: worker.fetch returns a stored MISS response with its cache.put still
\* pending; every pending cache.put eventually completes, and when it
\* completes the store holds the response under the request's key.
C30_PutNotAwaitedEventuallyLands ==
    /\ [](\A p \in Procs :
            (Done(p) /\ inv[p].puts = 1)
            => pending[p] = [key |-> inv[p].key, resp |-> inv[p].resp])
    /\ [][\A p \in Procs :
            (pending[p] # NoPut /\ pending'[p] = NoPut)
            => cache'[pending[p].key] = [resp |-> pending[p].resp, fresh |-> TRUE]]_vars
    /\ \A p \in Procs : (pending[p] # NoPut) ~> (pending[p] = NoPut)

C30_Witness ==
    \E p \in Procs :
        /\ Done(p) /\ inv[p].puts = 1
        /\ inv[p].resp.xcache = "MISS"
        /\ pending[p] # NoPut
        /\ cache[inv[p].key] = NoEntry


Missed(p) == inv[p].matches >= 1 /\ inv[p].first = NoResponse /\ ~inv[p].threw

OriginBodies == {"b1", "b2", "b4"}

\* A response as cache.put stores it.
Storable(r) ==
    /\ r.body \in OriginBodies
    /\ \/ r.status \in 200..299 /\ r.cc = FullCacheControl
       \/ r.status >= 500 /\ r.cc = ShortCacheControl

\* C32: every entry of the store, and every cache.put on its way, holds an
\* origin response with status 2xx and the full Cache-Control or with status
\* 5xx and the short one; none holds a 4xx, no-store, or a response the
\* proxy generated (500, 502, 504).
C32_OnlyCacheableEntries ==
    /\ \A k \in CacheKeys : cache[k] # NoEntry => Storable(cache[k].resp)
    /\ \A p \in Procs : pending[p] # NoPut => Storable(pending[p].resp)

C32_Witness ==
    \E k \in CacheKeys :
        /\ cache[k] # NoEntry
        /\ cache[k].resp.status = 500
        /\ cache[k].resp.cc = ShortCacheControl
        /\ cache[k].resp.body = "b4"

\* C33: a cache.put of a 5xx response never lands on a key whose entry is a
\* 2xx response still within its freshness.
C33_ServerErrorNeverReplacesSuccess ==
    [][\A p \in Procs :
         (pending[p] # NoPut /\ pending'[p] = NoPut /\ pending[p].resp.status >= 500)
         => ~(cache[pending[p].key] # NoEntry
              /\ cache[pending[p].key].fresh
              /\ cache[pending[p].key].resp.status \in 200..299)]_vars


SameParams(q1, q2) ==
    \A i \in DOMAIN q1 \cup DOMAIN q2 :
        /\ i \in DOMAIN q1 => Count(q1[i], q1) = Count(q1[i], q2)
        /\ i \in DOMAIN q2 => Count(q2[i], q1) = Count(q2[i], q2)

\* C35: two requests with the same cache key cause the same upstream
\* request: the same path and the same query parameters (as a multiset).
C35_SameKeySameUpstream ==
    (kdone /\ key1 = key2)
    => (/\ originUrl1.path = originUrl2.path
        /\ SameParams(originUrl1.params, originUrl2.params))

\* C37: CACHE_MISS_STORED is logged only after the cache.put of the response
\* has completed: a request that has logged it has no cache.put pending and
\* its response is, or has been, in the store.
C37_StoredLoggedAfterPut ==
    \A p \in Procs :
        Logged(p, "CACHE_MISS_STORED")
        => (pending[p] = NoPut /\ cache[inv[p].key] # NoEntry)

Occurrences(log, eventType) == Cardinality({i \in DOMAIN log : log[i] = eventType})
Precedes(log, a, b) ==
    \A i \in DOMAIN log : log[i] = b => \E j \in 1..(i - 1) : log[j] = a
OriginEvents ==
    {"ORIGIN_TIMEOUT", "ORIGIN_ERROR", "ORIGIN_FETCH_ERROR", "ORIGIN_FETCH_SUCCESS"}

C39_FlagOffNoObservabilityHeaders ==
    \A p \in Procs :
        (Done(p) /\ ~ObservabilityOn)
        => (inv[p].resp.xcache = "" /\ ~inv[p].resp.version /\ ~inv[p].resp.timems)


\* The level documented for an event (LOGGING.md, Event Types).
DocumentedLevel(eventType) ==
    CASE eventType \in {"ORIGIN_TIMEOUT", "ORIGIN_ERROR", "ORIGIN_FETCH_ERROR",
                        "WORKER_ERROR"} -> "ERROR"
      [] eventType \in {"STALE_FALLBACK", "CACHE_ERROR_RESPONSE"} -> "WARN"
      [] OTHER -> "INFO"

LevelRank(name) ==
    CASE name \in {"ERROR", "error"} -> 3
      [] name \in {"WARN", "warn"} -> 2
      [] name \in {"INFO", "info", ""} -> 1
      [] OTHER -> 0

\* C36: logEvent gives every event its documented level, and for a
\* documented LOG_LEVEL (debug, info, warn, error; default info) writes the
\* event exactly when that level is at or above the configured one.
C36_EventsAtDocumentedLevel ==
    kdone =>
        /\ levelName(logType) = DocumentedLevel(logType)
        /\ env.LOG_LEVEL \in {"", "debug", "info", "warn", "error"}
           => (logOut = <<logType>>
               <=> LevelRank(DocumentedLevel(logType)) >= LevelRank(env.LOG_LEVEL))
        /\ logOut \in {<<>>, <<logType>>}

Configured(v, dflt) == IF v.set THEN v.n ELSE dflt

\* C40: the Cache-Control of a success response carries the configured
\* BROWSER_TTL, EDGE_TTL and STALE_WHILE_REVALIDATE_TTL for every configured
\* value, 0 included, and 60, 300, 30 only for a value that is not
\* configured; the timeout is the configured ORIGIN_TIMEOUT_MS, or 3000 when
\* it is not configured.
C40_ConfiguredTtlsWritten ==
    kdone =>
        /\ cacheControl =
              "public, max-age=" \o ToString(Configured(env.BROWSER_TTL, 60))
              \o ", s-maxage=" \o ToString(Configured(env.EDGE_TTL, 300))
              \o ", stale-while-revalidate="
              \o ToString(Configured(env.STALE_WHILE_REVALIDATE_TTL, 30))
        /\ timeoutMs = Configured(env.ORIGIN_TIMEOUT_MS, 3000)

====
